---- MODULE Spec2Model ----
(***************************************************************************)
(* Model of lib/package_orphans.c: xbps_find_orphan_packages() and its     *)
(* callback find_orphan_pkg(), which walk the registered packages database *)
(* in reverse registration order and collect the package orphans in the    *)
(* process-wide SIMPLEQ orphan_list.                                       *)
(*                                                                         *)
(* C strings are sequences of one-character strings, so that the name of a *)
(* dependent is computed from its "name-version" string and not assumed.   *)
(***************************************************************************)
EXTENDS Integers, Sequences, FiniteSets, TLC

\* Largest number of package dictionaries in the "packages" array.
MaxPkgs == 2
\* Largest number of strings in a "requiredby" array.
MaxReqby == 2

VARIABLES
    packages,     \* the "packages" array of the regpkgdb dictionary
    pc,           \* position inside xbps_find_orphan_packages
    cnt,          \* index of the reverse iteration (while (cnt--))
    orphan_list,  \* static SIMPLEQ orphan_list
    array,        \* local prop_array_t array being filled
    result,       \* what xbps_find_orphan_packages returned
    errno,        \* C errno
    nacquire,     \* successful xbps_regpkgdb_dictionary_get calls made by this call
    nrelease,     \* xbps_regpkgdb_dictionary_release calls made by this call
    live,         \* objects allocated by this call that it still has to free
    prev,         \* the array returned by the last successful call
    failed        \* some earlier call returned NULL

vars == <<packages, pc, cnt, orphan_list, array, result, errno, nacquire,
          nrelease, live, prev, failed>>

----------------------------------------------------------------------------
\* Values

NoError == "0"
EINVAL == "EINVAL"
ENOMEM == "ENOMEM"
ENOENT == "ENOENT"

XBPS_PKG_STATE_UNPACKED == "unpacked"
XBPS_PKG_STATE_INSTALLED == "installed"
\* get_state() yields 0 when the "state" string is missing or unknown
XBPS_PKG_STATE_NONE == "none"

PkgStates == {XBPS_PKG_STATE_INSTALLED, XBPS_PKG_STATE_UNPACKED, XBPS_PKG_STATE_NONE}

\* Package names by registration position; a name occurs once in the registry.
PkgNames == << <<"A">>, <<"B">>, <<"C">>, <<"D">> >>

\* The strings found in "requiredby" arrays: "A-1", "B-2.0" and the malformed
\* "B2.0", which has no version separator.
Depspecs == { <<"A", "-", "1">>, <<"B", "-", "2", ".", "0">>, <<"B", "2", ".", "0">> }

SeqsUpTo(S, n) == UNION {[1..k -> S] : k \in 0..n}

\* The "requiredby" object of a package dictionary: missing, an object that
\* is not an array, or an array of strings.
Reqbys == {[type |-> "absent", items |-> <<>>], [type |-> "string", items |-> <<>>]}
          \cup {[type |-> "array", items |-> s] : s \in SeqsUpTo(Depspecs, MaxReqby)}

\* find_orphan_pkg reads "requiredby" only of a package that is automatic and
\* installed: these take every requiredby object, the others the two objects
\* that would matter most if they were read (an empty array, a non-array).
SkippedReqbys == {[type |-> "string", items |-> <<>>], [type |-> "array", items |-> <<>>]}

PkgProps ==
    [automatic : {TRUE}, state : {XBPS_PKG_STATE_INSTALLED}, requiredby : Reqbys]
    \cup {p \in [automatic : BOOLEAN, state : PkgStates, requiredby : SkippedReqbys] :
            ~(p.automatic /\ p.state = XBPS_PKG_STATE_INSTALLED)}

PkgDict(name, props) ==
    [pkgname |-> name, automatic |-> props.automatic, state |-> props.state,
     requiredby |-> props.requiredby]

\* The "packages" array made of the first n names with the properties k.
Snapshot(n, k) == [i \in 1..n |-> PkgDict(PkgNames[i], k[i])]

NullResult == [null |-> TRUE, items |-> <<>>]
NoArray == [created |-> FALSE, items |-> <<>>]
NoneLive == [orphan |-> 0, dict |-> 0, iter |-> 0, array |-> 0]

----------------------------------------------------------------------------
\* Helpers

\* strrchr(s, c): the last position of c in s, 0 when c does not occur.
strrchr(s, c) ==
    LET hits == {i \in 1..Len(s) : s[i] = c}
    IN  IF hits = {} THEN 0 ELSE CHOOSE i \in hits : \A j \in hits : j <= i

\* xbps_get_pkg_name("foo-2.0") = "foo"; NULL when there is no '-'.
xbps_get_pkg_name(pkg) ==
    LET i == strrchr(pkg, "-")
    IN  IF i = 0 THEN [null |-> TRUE, str |-> <<>>]
        ELSE [null |-> FALSE, str |-> SubSeq(pkg, 1, i - 1)]

\* xbps_get_pkg_state_dictionary: EINVAL when the state is unknown.
xbps_get_pkg_state_dictionary(obj) ==
    IF obj.state = XBPS_PKG_STATE_NONE
    THEN [rv |-> EINVAL, state |-> XBPS_PKG_STATE_NONE]
    ELSE [rv |-> NoError, state |-> obj.state]

\* Mutant: the strcmp test without "== 0".
InOrphanListInverted(list, pkgname) ==
    \E k \in 1..Len(list) : list[k].pkgname # pkgname

\* SIMPLEQ_FOREACH(orphan, &orphan_list, chain) with strcmp on pkgname.
InOrphanList(list, pkgname) ==
    \E k \in 1..Len(list) : list[k].pkgname = pkgname

\* Mutant: a string without a package name is passed over.
RECURSIVE CountDepsSkip(_, _, _, _)
CountDepsSkip(items, i, list, ndep) ==
    IF i > Len(items) THEN [rv |-> NoError, ndep |-> ndep]
    ELSE LET pkgname == xbps_get_pkg_name(items[i])
         IN  CountDepsSkip(items, i + 1, list,
                           IF ~pkgname.null /\ InOrphanList(list, pkgname.str)
                           THEN ndep + 1 ELSE ndep)

\* The while loop over the requiredby iterator, from string i on, with ndep
\* matches counted so far.
RECURSIVE CountDeps(_, _, _, _)
CountDeps(items, i, list, ndep) ==
    IF i > Len(items) THEN [rv |-> NoError, ndep |-> ndep]
    ELSE LET pkgname == xbps_get_pkg_name(items[i])
         IN  IF pkgname.null THEN [rv |-> EINVAL, ndep |-> ndep]
             ELSE CountDeps(items, i + 1, list,
                            IF InOrphanList(list, pkgname.str) THEN ndep + 1 ELSE ndep)

\* What one call of find_orphan_pkg leaves: its return value, the list, and
\* the objects it allocated that are still allocated when it returns.
Ret(rv, list, orphan, dict, iter) ==
    [rv |-> rv, list |-> list, orphan |-> orphan, dict |-> dict, iter |-> iter]

\* Mutant: SIMPLEQ_INSERT_HEAD in place of SIMPLEQ_INSERT_TAIL.
add_orphan_head(obj, list, mallocFails) ==
    IF mallocFails THEN Ret(ENOMEM, list, 0, 0, 0)
    ELSE Ret(NoError, <<[pkgname |-> obj.pkgname, dict |-> obj]>> \o list, 1, 1, 0)

\* The add_orphan label.
add_orphan(obj, list, mallocFails) ==
    IF mallocFails THEN Ret(ENOMEM, list, 0, 0, 0)
    ELSE Ret(NoError, Append(list, [pkgname |-> obj.pkgname, dict |-> obj]), 1, 1, 0)

\* Mutant: one orphan among the dependents is enough.
AfterLoopAny(obj, list, ndep, n, mallocFails) ==
    IF ndep = 0 THEN Ret(NoError, list, 0, 0, 0)
    ELSE add_orphan(obj, list, mallocFails)

\* The decision after the requiredby loop.
AfterLoop(obj, list, ndep, n, mallocFails) ==
    IF ndep # n THEN Ret(NoError, list, 0, 0, 0)
    ELSE add_orphan(obj, list, mallocFails)

\* Mutant: an empty "requiredby" array is treated like a missing one.
CheckReqbyEmptySkipped(obj, list, iterFails, mallocFails) ==
    LET reqby == obj.requiredby
        n == Len(reqby.items)
    IN  IF reqby.type = "absent" THEN Ret(NoError, list, 0, 0, 0)
        ELSE IF reqby.type # "array" THEN Ret(EINVAL, list, 0, 0, 0)
        ELSE IF n = 0 THEN Ret(NoError, list, 0, 0, 0)
        ELSE IF iterFails THEN Ret(ENOMEM, list, 0, 0, 0)
        ELSE LET c == CountDeps(reqby.items, 1, list, 0)
             IN  IF c.rv # NoError THEN Ret(c.rv, list, 0, 0, 1)
                 ELSE AfterLoop(obj, list, c.ndep, n, mallocFails)

\* The required_by part of find_orphan_pkg.
CheckReqby(obj, list, iterFails, mallocFails) ==
    LET reqby == obj.requiredby
        n == Len(reqby.items)
    IN  IF reqby.type = "absent" THEN Ret(NoError, list, 0, 0, 0)
        ELSE IF reqby.type # "array" THEN Ret(EINVAL, list, 0, 0, 0)
        ELSE IF n = 0 THEN add_orphan(obj, list, mallocFails)
        ELSE IF iterFails THEN Ret(ENOMEM, list, 0, 0, 0)
        ELSE LET c == CountDeps(reqby.items, 1, list, 0)
             IN  IF c.rv # NoError THEN Ret(c.rv, list, 0, 0, 1)
                 ELSE AfterLoop(obj, list, c.ndep, n, mallocFails)

\* Mutant: the automatic-install test is missing.
find_orphan_pkg_any(obj, list, iterFails, mallocFails) ==
    LET s == xbps_get_pkg_state_dictionary(obj)
    IN  IF s.rv # NoError THEN Ret(s.rv, list, 0, 0, 0)
        ELSE IF s.state # XBPS_PKG_STATE_INSTALLED THEN Ret(NoError, list, 0, 0, 0)
        ELSE CheckReqby(obj, list, iterFails, mallocFails)

find_orphan_pkg(obj, list, iterFails, mallocFails) ==
    IF ~obj.automatic THEN Ret(NoError, list, 0, 0, 0)
    ELSE LET s == xbps_get_pkg_state_dictionary(obj)
         IN  IF s.rv # NoError THEN Ret(s.rv, list, 0, 0, 0)
             ELSE IF s.state # XBPS_PKG_STATE_INSTALLED THEN Ret(NoError, list, 0, 0, 0)
             ELSE CheckReqby(obj, list, iterFails, mallocFails)

\* cleanup(): the objects left after the list is emptied.
cleanup(lv, list) ==
    [lv EXCEPT !.orphan = @ - Len(list), !.dict = @ - Len(list)]

\* Mutant: cleanup() releases the registry and leaves the list alone.
cleanup_list_kept(list) == list

\* cleanup(): the list it leaves.
cleanup_list(list) == <<>>

\* Mutant: cleanup() does not release the registry.
cleanup_no_release(n) == n

\* cleanup(): the snapshot releases made, n of them before it.
cleanup_release(n) == n + 1

----------------------------------------------------------------------------
\* Actions

Init ==
    /\ \E n \in 0..MaxPkgs : \E k \in [1..n -> PkgProps] : packages = Snapshot(n, k)
    /\ pc = "idle"
    /\ cnt = 0
    /\ orphan_list = <<>>
    /\ array = NoArray
    /\ result = NullResult
    /\ errno = NoError
    /\ nacquire = 0
    /\ nrelease = 0
    /\ live = NoneLive
    /\ prev = NullResult
    /\ failed = FALSE

\* A failure return: cleanup() and return NULL.
Fail(lv, list, e) ==
    /\ live' = cleanup(lv, list)
    /\ orphan_list' = cleanup_list(list)
    /\ nrelease' = cleanup_release(nrelease)
    /\ errno' = e
    /\ result' = NullResult
    /\ pc' = "returned"

\* xbps_regpkgdb_dictionary_get() and the start of the reverse iteration.
Acquire ==
    /\ pc = "idle"
    /\ \E ok \in BOOLEAN :
         IF ok
         THEN /\ nacquire' = nacquire + 1
              /\ cnt' = Len(packages)
              /\ pc' = "scan"
              /\ UNCHANGED <<result, errno>>
         ELSE /\ result' = NullResult
              /\ errno' = ENOENT
              /\ pc' = "returned"
              /\ UNCHANGED <<nacquire, cnt>>
    /\ UNCHANGED <<packages, orphan_list, array, nrelease, live, prev, failed>>

\* One callback of xbps_callback_array_iter_reverse_in_dict.
Visit ==
    /\ pc = "scan"
    /\ cnt > 0
    /\ \E iterFails, mallocFails \in BOOLEAN :
         LET r == find_orphan_pkg(packages[cnt], orphan_list, iterFails, mallocFails)
             lv == [live EXCEPT !.orphan = @ + r.orphan, !.dict = @ + r.dict,
                                !.iter = @ + r.iter]
         IN  IF r.rv = NoError
             THEN /\ orphan_list' = r.list
                  /\ live' = lv
                  /\ cnt' = cnt - 1
                  /\ UNCHANGED <<pc, result, errno, nrelease>>
             ELSE /\ Fail(lv, r.list, r.rv)
                  /\ UNCHANGED cnt
    /\ UNCHANGED <<packages, array, nacquire, prev, failed>>

\* prop_array_create() after the iteration returned 0.
CreateArray ==
    /\ pc = "scan"
    /\ cnt = 0
    /\ \E ok \in BOOLEAN :
         IF ok
         THEN /\ array' = [created |-> TRUE, items |-> <<>>]
              /\ live' = [live EXCEPT !.array = @ + 1]
              /\ pc' = "collect"
              /\ UNCHANGED <<orphan_list, result, errno, nrelease>>
         ELSE /\ Fail(live, orphan_list, ENOMEM)
              /\ UNCHANGED array
    /\ UNCHANGED <<packages, cnt, nacquire, prev, failed>>

\* One turn of the loop that moves the orphans into the array.
AddToArray ==
    /\ pc = "collect"
    /\ orphan_list # <<>>
    /\ \E ok \in BOOLEAN :
         IF ok
         THEN /\ array' = [array EXCEPT !.items = Append(@, Head(orphan_list).dict)]
              /\ orphan_list' = Tail(orphan_list)
              /\ live' = [live EXCEPT !.orphan = @ - 1]
              /\ UNCHANGED <<pc, result, errno, nrelease>>
         ELSE /\ Fail(live, orphan_list, ENOMEM)
              /\ array' = NoArray
    /\ UNCHANGED <<packages, cnt, nacquire, prev, failed>>

\* The success return.
Finish ==
    /\ pc = "collect"
    /\ orphan_list = <<>>
    /\ nrelease' = nrelease + 1
    /\ result' = [null |-> FALSE, items |-> array.items]
    /\ live' = [live EXCEPT !.array = @ - 1, !.dict = @ - Len(array.items)]
    /\ array' = NoArray
    /\ pc' = "returned"
    /\ UNCHANGED <<packages, cnt, orphan_list, errno, nacquire, prev, failed>>

\* The caller takes the result; the next call starts from here.
NextCall ==
    /\ pc = "returned"
    /\ pc' = "idle"
    /\ prev' = IF result.null THEN prev ELSE result
    /\ failed' = (failed \/ result.null)
    /\ result' = NullResult
    /\ nacquire' = 0
    /\ nrelease' = 0
    /\ live' = NoneLive
    /\ cnt' = 0
    /\ errno' = NoError
    /\ UNCHANGED <<packages, orphan_list, array>>

Next == Acquire \/ Visit \/ CreateArray \/ AddToArray \/ Finish \/ NextCall

Spec == Init /\ [][Next]_vars

----------------------------------------------------------------------------
\* Vocabulary of the properties

Pkgs == 1..Len(packages)

\* The package dictionaries found orphan so far by the call in progress, in
\* discovery order; after the return, the ones returned.
Discovered ==
    IF pc = "returned" THEN result.items
    ELSE array.items \o [k \in 1..Len(orphan_list) |-> orphan_list[k].dict]

Has(seq, obj) == \E k \in 1..Len(seq) : seq[k] = obj

Succeeded == pc = "returned" /\ ~result.null

Candidate(i) ==
    packages[i].automatic /\ packages[i].state = XBPS_PKG_STATE_INSTALLED

IsArray(i) == packages[i].requiredby.type = "array"

Refs(i) == packages[i].requiredby.items

\* The dependent reference names a package dictionary of seq.
NamesOneOf(ref, seq) ==
    /\ ~xbps_get_pkg_name(ref).null
    /\ \E k \in 1..Len(seq) : seq[k].pkgname = xbps_get_pkg_name(ref).str

----------------------------------------------------------------------------
\* C1: in the array a successful call returns, every package that is
\* automatic, installed and has no "requiredby" object or an empty one occurs.
C1_NoDependentsIsOrphan ==
    Succeeded =>
        \A i \in Pkgs :
            (/\ Candidate(i)
             /\ \/ packages[i].requiredby.type = "absent"
                \/ IsArray(i) /\ Refs(i) = <<>>)
            => Has(result.items, packages[i])

----------------------------------------------------------------------------
\* C2: an automatic package one of whose dependent references names no
\* package of the orphans found so far when it is visited is not added by
\* that visit, and a package left out by its visit is not added later in the
\* same call, so it is not in the returned array.
C2_LiveDependentNotOrphan ==
    [][\A i \in Pkgs :
        /\ (/\ pc = "scan" /\ cnt = i
            /\ packages[i].automatic /\ IsArray(i)
            /\ \E j \in 1..Len(Refs(i)) :
                 /\ ~xbps_get_pkg_name(Refs(i)[j]).null
                 /\ ~NamesOneOf(Refs(i)[j], Discovered))
           => ~Has(Discovered', packages[i])
        /\ (/\ pc \in {"scan", "collect"} /\ i > cnt
            /\ ~Has(Discovered, packages[i]))
           => ~Has(Discovered', packages[i])]_vars

\* A call returned an orphan, and left out an installed automatic package
\* that is required by that orphan and by a package that is no orphan.
C2_Witness ==
    /\ Succeeded
    /\ \E i \in Pkgs :
         /\ Candidate(i) /\ IsArray(i)
         /\ \E j \in 1..Len(Refs(i)) : NamesOneOf(Refs(i)[j], result.items)
         /\ \E j \in 1..Len(Refs(i)) :
              /\ ~xbps_get_pkg_name(Refs(i)[j]).null
              /\ ~NamesOneOf(Refs(i)[j], result.items)
         /\ ~Has(result.items, packages[i])

----------------------------------------------------------------------------
\* C3: the visit of an installed automatic package with a non-empty
\* "requiredby" array all of whose references (each one counted) name
\* orphans already found appends the package, or else an allocation fails
\* and the call returns NULL with ENOMEM; and for A{automatic, requiredby
\* ["B-2.0"]}, B{automatic, requiredby []} registered in this order a
\* successful call returns [B, A].
ExampleAB ==
    /\ Len(packages) = 2
    /\ Candidate(1) /\ IsArray(1) /\ Refs(1) = << <<"B", "-", "2", ".", "0">> >>
    /\ Candidate(2) /\ IsArray(2) /\ Refs(2) = <<>>

C3_AllDependentsOrphan ==
    /\ [](ExampleAB /\ Succeeded => result.items = <<packages[2], packages[1]>>)
    /\ [][\A i \in Pkgs :
            (/\ pc = "scan" /\ cnt = i
             /\ Candidate(i) /\ IsArray(i) /\ Refs(i) # <<>>
             /\ \A j \in 1..Len(Refs(i)) : NamesOneOf(Refs(i)[j], Discovered))
            => \/ /\ pc' = "scan"
                  /\ orphan_list' = Append(orphan_list,
                                           [pkgname |-> packages[i].pkgname,
                                            dict |-> packages[i]])
               \/ /\ pc' = "returned"
                  /\ result'.null
                  /\ errno' = ENOMEM]_vars

\* The example registry was scanned and [B, A] returned.
C3_Witness ==
    ExampleAB /\ Succeeded /\ result.items = <<packages[2], packages[1]>>

----------------------------------------------------------------------------
\* C4: every package dictionary among the orphans, during the scan and in
\* the returned array, is automatic and installed; a registry without an
\* automatic package yields an empty array.
C4_OnlyAutomaticInstalled ==
    /\ \A k \in 1..Len(Discovered) :
         /\ Discovered[k].automatic
         /\ Discovered[k].state = XBPS_PKG_STATE_INSTALLED
    /\ (Succeeded /\ \A i \in Pkgs : ~packages[i].automatic) => result.items = <<>>

\* A call returned an orphan and left out a package with an empty
\* "requiredby" array that is not automatic or not installed.
C4_Witness ==
    /\ Succeeded
    /\ result.items # <<>>
    /\ \E i \in Pkgs :
         /\ ~Candidate(i)
         /\ IsArray(i) /\ Refs(i) = <<>>
         /\ ~Has(result.items, packages[i])

----------------------------------------------------------------------------
\* The "requiredby" object is not an array, or holds a string without a
\* package name.
Malformed(i) ==
    \/ packages[i].requiredby.type = "string"
    \/ IsArray(i) /\ \E j \in 1..Len(Refs(i)) : xbps_get_pkg_name(Refs(i)[j]).null

\* C5 as claimed: a call that got the registry and returned, on a registry
\* with a malformed "requiredby" in any package, returned NULL.
C5_AnyMalformedFails ==
    (pc = "returned" /\ nacquire = 1 /\ \E i \in Pkgs : Malformed(i)) => result.null

\* C5 as amended: when the reverse walk has visited an automatic, installed
\* package with a malformed "requiredby", the call stopped at that package
\* and returned NULL, with errno EINVAL unless the iterator of the array
\* could not be allocated.
C5_VisitedMalformedFails ==
    \A i \in Pkgs :
        (/\ pc = "returned" /\ nacquire = 1 /\ cnt <= i
         /\ Candidate(i) /\ Malformed(i))
        => /\ result.null
           /\ cnt = i
           /\ \/ errno = EINVAL
              \/ errno = ENOMEM /\ IsArray(i)

\* A call found an orphan, then met a "requiredby" string without a package
\* name, and returned NULL with EINVAL.
C5_Witness ==
    /\ pc = "returned" /\ result.null /\ errno = EINVAL
    /\ Len(packages) = 2 /\ cnt = 1
    /\ Candidate(2) /\ IsArray(2) /\ Refs(2) = <<>>
    /\ Candidate(1) /\ IsArray(1) /\ Malformed(1)

----------------------------------------------------------------------------
\* C6: a call never releases the registry more often than it acquired it,
\* and when it returns it has released it exactly once if it acquired it and
\* not at all if the acquisition failed.
C6_ReleasedExactlyOnce ==
    /\ nacquire \in {0, 1}
    /\ nrelease <= nacquire
    /\ pc = "returned" => nrelease = nacquire
    /\ pc \in {"scan", "collect"} => (nacquire = 1 /\ nrelease = 0)

\* A call acquired the registry, failed in the scan and released it once.
C6_Witness ==
    /\ pc = "returned" /\ result.null /\ errno = EINVAL
    /\ nacquire = 1 /\ nrelease = 1

----------------------------------------------------------------------------
\* C7: when a call returns NULL, nothing it allocated is left allocated (no
\* list entry, no dictionary copy, no iterator, no array) and the registry
\* is released.
C7_FailureReleasesAll ==
    (pc = "returned" /\ result.null) =>
        /\ live = NoneLive
        /\ orphan_list = <<>>
        /\ nrelease = nacquire

----------------------------------------------------------------------------
\* C8: orphan_list is empty whenever no call is in progress, and a
\* successful call returns the same array, members and order, as the
\* successful call before it, whatever calls failed earlier.
C8_SameResultAgain ==
    /\ pc \in {"idle", "returned"} => orphan_list = <<>>
    /\ (Succeeded /\ ~prev.null) => result.items = prev.items

\* A call returned orphans for the second time, after a call that failed.
C8_Witness ==
    /\ Succeeded /\ ~prev.null /\ failed
    /\ result.items # <<>>
    /\ result.items = prev.items

----------------------------------------------------------------------------
\* The position of a package dictionary in the registry.
PosOf(obj) == CHOOSE i \in Pkgs : packages[i].pkgname = obj.pkgname

\* C9: the orphans found so far, and the returned array, are package
\* dictionaries of the registry, each at most once, in the order of the
\* reverse walk (a subsequence of the reversed "packages" array).
C9_SubsequenceOfReverse ==
    /\ \A k \in 1..Len(Discovered) : \E i \in Pkgs : packages[i] = Discovered[k]
    /\ \A k, l \in 1..Len(Discovered) :
         k < l => PosOf(Discovered[k]) > PosOf(Discovered[l])
    /\ \A k \in 1..Len(orphan_list) :
         orphan_list[k].pkgname = orphan_list[k].dict.pkgname

\* A call returned two orphans.
C9_Witness ==
    Succeeded /\ Len(result.items) = 2

----------------------------------------------------------------------------
\* F(S): the automatic, installed packages all of whose dependent references
\* name a package of S (S a set of positions).
F(S) ==
    {i \in Pkgs :
        /\ Candidate(i)
        /\ \A j \in 1..Len(Refs(i)) :
             \E m \in S :
                /\ ~xbps_get_pkg_name(Refs(i)[j]).null
                /\ packages[m].pkgname = xbps_get_pkg_name(Refs(i)[j]).str}

RECURSIVE LfpFrom(_)
LfpFrom(S) == IF F(S) = S THEN S ELSE LfpFrom(F(S))

\* The least fixed point of F.
Lfp == LfpFrom({})

\* Every package has a "requiredby" array of well-formed strings and a known
\* state, and every dependent that is in the registry is registered after
\* the package it depends on.
OrderedRegistry ==
    \A i \in Pkgs :
        /\ IsArray(i)
        /\ packages[i].state # XBPS_PKG_STATE_NONE
        /\ \A j \in 1..Len(Refs(i)) :
             /\ ~xbps_get_pkg_name(Refs(i)[j]).null
             /\ \A m \in Pkgs :
                  packages[m].pkgname = xbps_get_pkg_name(Refs(i)[j]).str => m > i

\* C10: on such a registry the packages a successful call returns are
\* exactly those of the least fixed point of F.
C10_SinglePassIsLfp ==
    (Succeeded /\ OrderedRegistry) =>
        {PosOf(result.items[k]) : k \in 1..Len(result.items)} = Lfp

\* On such a registry a call returned a package that is an orphan only
\* because its dependents are.
C10_Witness ==
    /\ Succeeded /\ OrderedRegistry
    /\ \E i \in Pkgs : Refs(i) # <<>> /\ Has(result.items, packages[i])

====
